---- MODULE Spec2Model ----
(***************************************************************************)
(* The alias-indirection index lifecycle of go-es: the CreateIndex,        *)
(* UpdateIndex and DeleteIndex handlers and the bulk add of documents,     *)
(* running on request workers against one search engine.  Every engine     *)
(* call of a handler is one atomic step; between two calls of a request    *)
(* the other workers and the clock may move.                               *)
(*                                                                         *)
(* The engine is the external collaborator.  Its calls behave as the       *)
(* engine documents them: an index creation fails when the name exists     *)
(* and binds the aliases named in its body; the alias action "add" binds   *)
(* one more index to the alias and removes no binding; deleting an index   *)
(* removes it from every alias; a get-alias of an alias with no index is   *)
(* a 404.  Any call may also fail for reasons of the engine's own          *)
(* (transport failure: "conn", error response: "rej").                     *)
(*                                                                         *)
(* The data plane is a second specification, SpecData: one request of      *)
(* ExportDocuments (a step per search, scroll and clear-scroll call),      *)
(* ImportDocuments, the document handlers by id, Exists, GetIndex, or the  *)
(* schema translation of CreateIndex and UpdateIndex, with the JSON lines  *)
(* and the Go values they decode to.  SpecExport is an export alone, with  *)
(* weak fairness of its steps, for its termination.                        *)
(***************************************************************************)
EXTENDS Integers, FiniteSets, Sequences, TLC

\* Seconds the clock can show: physical names carry the second of creation.
MaxTime == 3
\* Number of distinct documents a client can add.
MaxDocs == 2
\* Number of requests the clients send in one run.
MaxRequests == 4

Times == 1..MaxTime
Docs == 1..MaxDocs
Aliases == {"products"}
\* Two requests can be in flight at the same time.
AllWorkers == {1, 2}
None == <<>>

\* fmt.Sprintf("%s_%s", alias, time.Now().Format("20060102150405"))
NewIndexName(alias, t) == <<alias, t>>
PhysNames == {NewIndexName(a, t) : a \in Aliases, t \in Times}

VARIABLES
    now,          \* the wall clock, in seconds
    indices,      \* engine: the physical indices that exist
    docs,         \* engine: the documents of each physical index
    aliases,      \* engine: the physical indices bound to each alias
    workers,      \* the request workers of this deployment
    served,       \* the number of requests that have arrived
    pc,          \* where each worker is in its handler
    op,           \* the handler each worker runs (or ran last)
    alias,        \* the logical name of the worker's request
    indexName,    \* handler local: the resolved (or, in CreateIndex, derived) name
    newIndexName, \* handler local of UpdateIndex: the name of the new index
    resp,         \* the response envelopes the worker's request has written
    calls,        \* the engine calls the worker's request has issued, in order
    pre           \* the engine state when the worker's request started

\* The data plane: one request for documents (or for a field schema) at a time.
VARIABLES
    details,      \* response.d: error envelopes carry their details
    handler,      \* the data-plane handler in service
    at,           \* where that handler is
    request,      \* what it bound from the request
    sent,         \* the responses it has written
    esCalls,      \* the engine calls it has issued, in order
    hitlist,      \* engine: the documents matching the export query, in scroll order
    size,         \* engine: the number of hits of a page
    scroll,       \* engine: the scroll context that is open
    expiredAt,    \* where the handler was when its request context ran out
    documents,    \* ExportDocuments local: the documents collected
    scrollID,     \* ExportDocuments local
    iteration     \* ExportDocuments local: the loop counter i

engineVars == <<indices, docs, aliases>>
reqVars == <<served, pc, op, alias, indexName, newIndexName, resp, calls, pre>>
lifeVars == <<now, engineVars, workers, reqVars>>
exportVars == <<hitlist, size, scroll, expiredAt, documents, scrollID, iteration>>
dataVars == <<details, handler, at, request, sent, esCalls, exportVars>>
vars == <<now, indices, docs, aliases, workers, served, pc, op, alias, indexName,
          newIndexName, resp, calls, pre, dataVars>>

Engine == [indices |-> indices, docs |-> docs, aliases |-> aliases]

\* The ways an engine call can fail on the engine's own account.
Failures == {"conn", "rej"}

\* ---- response envelopes ------------------------------------------------
StatusOK == 200
StatusBadRequest == 400
StatusConflict == 409
StatusInternalServerError == 500

Success(msg) == [ok |-> TRUE, code |-> StatusOK, message |-> msg]
Failure(code, msg) == [ok |-> FALSE, code |-> code, message |-> msg]
\* The error a wrapper returns for a failed engine call: a transport failure
\* is a 500 connection error, an error response is parsed and keeps the
\* engine's status.
EsError(f, msg) ==
    IF f = "conn" THEN Failure(StatusInternalServerError, "failed to connect to elastic server")
    ELSE Failure(StatusBadRequest, msg)
\* esErr.Details.Error() on the nil Details of ResolveAlias's not-found error
\* panics; gin.Recovery answers 500.
Panic == Failure(StatusInternalServerError, "panic recovered")

Call(api, target, ok) == [api |-> api, target |-> target, ok |-> ok]

\* No scroll context is open.
NoScroll == [id |-> "", pos |-> 0]

\* No data-plane request has arrived; error details are off.
DataIdle ==
    /\ details = FALSE
    /\ handler = "none"
    /\ at = "idle"
    /\ request = None
    /\ sent = <<>>
    /\ esCalls = <<>>
    /\ hitlist = <<>>
    /\ size = 1
    /\ scroll = NoScroll
    /\ expiredAt = "never"
    /\ documents = <<>>
    /\ scrollID = ""
    /\ iteration = 0

Init ==
    /\ now = 1
    /\ indices = {}
    /\ docs = [n \in PhysNames |-> {}]
    /\ aliases = [a \in Aliases |-> {}]
    /\ workers = AllWorkers
    /\ served = 0
    /\ pc = [w \in AllWorkers |-> "idle"]
    /\ op = [w \in AllWorkers |-> "none"]
    /\ alias = [w \in AllWorkers |-> None]
    /\ indexName = [w \in AllWorkers |-> None]
    /\ newIndexName = [w \in AllWorkers |-> None]
    /\ resp = [w \in AllWorkers |-> <<>>]
    /\ calls = [w \in AllWorkers |-> <<>>]
    /\ pre = [w \in AllWorkers |-> None]
    /\ DataIdle

\* ---- the engine --------------------------------------------------------
\* Indices.Create: the new index is empty and is bound to the aliases named
\* in the request body.
EsCreate(e, n, bind) ==
    [indices |-> e.indices \cup {n},
     docs |-> [e.docs EXCEPT ![n] = {}],
     aliases |-> [a \in Aliases |-> IF a \in bind THEN e.aliases[a] \cup {n}
                                     ELSE e.aliases[a]]]
\* Indices.Delete: the index goes, and with it its documents and bindings.
EsDelete(e, n) ==
    [indices |-> e.indices \ {n},
     docs |-> [e.docs EXCEPT ![n] = {}],
     aliases |-> [a \in Aliases |-> e.aliases[a] \ {n}]]
\* Indices.UpdateAliases with the one action {"add": {index, alias}}.
EsAliasAdd(e, a, n) ==
    [e EXCEPT !.aliases = [@ EXCEPT ![a] = @ \cup {n}]]
\* Reindex {source: {index: src}, dest: {index: dst}} that copied `copied`.
EsCopy(e, dst, copied) ==
    [e EXCEPT !.docs = [@ EXCEPT ![dst] = @ \cup copied]]
\* A document write or read addressed by alias reaches an index only when the
\* alias is bound to exactly one.
EsTarget(e, a) == IF Cardinality(e.aliases[a]) = 1 THEN e.aliases[a] ELSE {}
EsIndexDoc(e, a, d) ==
    [e EXCEPT !.docs = [n \in PhysNames |-> IF n \in EsTarget(e, a)
                                            THEN @[n] \cup {d} ELSE @[n]]]

SetEngine(e) ==
    /\ indices' = e.indices
    /\ docs' = e.docs
    /\ aliases' = e.aliases

\* ---- wrappers of package elastic -----------------------------------------
\* ResolveAlias when the engine answers: a 404 is the not-found error; of a
\* 200 the first key of the decoded map is returned, and the iteration order
\* of a Go map is not fixed.
ResolveAlias(e, a) ==
    IF e.aliases[a] = {} THEN {[found |-> FALSE, name |-> None]}
    ELSE {[found |-> TRUE, name |-> n] : n \in e.aliases[a]}

\* Mutant: source and destination exchanged.
ReindexBodySwapped(oldIndex, newIndex) == [source |-> newIndex, dest |-> oldIndex]

\* The body of Reindex's request to the engine.
ReindexBody(oldIndex, newIndex) == [source |-> oldIndex, dest |-> newIndex]

\* GetDocumentByID(alias, id): the engine's get, addressed by the alias.
GetDocumentByID(e, a, d) == \E n \in EsTarget(e, a) : n \in e.indices /\ d \in e.docs[n]

\* ---- handler plumbing ----------------------------------------------------
Idle(w) == w \in workers /\ pc[w] \in {"idle", "done"} /\ served < MaxRequests

\* A request arrives at an idle worker: the handler binds the request and
\* either goes on to its first engine call (at `next`) or answers at once.
Start(w, o, a, next, name, answer) ==
    /\ Idle(w)
    /\ served' = served + 1
    /\ pc' = [pc EXCEPT ![w] = next]
    /\ op' = [op EXCEPT ![w] = o]
    /\ alias' = [alias EXCEPT ![w] = a]
    /\ indexName' = [indexName EXCEPT ![w] = name]
    /\ newIndexName' = [newIndexName EXCEPT ![w] = None]
    /\ resp' = [resp EXCEPT ![w] = answer]
    /\ calls' = [calls EXCEPT ![w] = <<>>]
    /\ pre' = [pre EXCEPT ![w] = Engine]
    /\ UNCHANGED <<now, engineVars, workers, dataVars>>

\* c.JSON / SendErrorResponse followed by return.
Reply(w, r) ==
    /\ resp' = [resp EXCEPT ![w] = Append(@, r)]
    /\ pc' = [pc EXCEPT ![w] = "done"]

Goto(w, next) ==
    /\ pc' = [pc EXCEPT ![w] = next]
    /\ UNCHANGED resp

Log(w, api, target, ok) == calls' = [calls EXCEPT ![w] = Append(@, Call(api, target, ok))]

\* ---- CreateIndex ---------------------------------------------------------
\* Mutant: the payload names no alias.
CreateIndexAliasesNone(name) == {}

\* The aliases of the creation payload.
CreateIndexAliases(name) == {name}

\* Mutant: the conflict branch is missing.
CreateIndexOnResolveAlways(found) == "crt_create"

\* What the handler does with ResolveAlias's answer: a bound name is a
\* conflict, the not-found error lets the creation go on.
CreateIndexOnResolve(found) == IF found THEN "conflict" ELSE "crt_create"

\* Bind the body, derive the physical name, before any engine call.
CreateIndexStart(w) ==
    \E a \in Aliases, valid \in BOOLEAN :
        IF valid
        THEN Start(w, "CreateIndex", a, "crt_resolve", NewIndexName(a, now), <<>>)
        ELSE Start(w, "CreateIndex", a, "done", None,
                   <<Failure(StatusBadRequest, "invalid request payload")>>)

\* ec.ResolveAlias(req.Name) and the branch on its error.
CreateIndexResolve(w) ==
    /\ w \in workers /\ pc[w] = "crt_resolve"
    /\ \/ \E f \in Failures :
            /\ Log(w, "GetAlias", alias[w], FALSE)
            /\ Reply(w, EsError(f, "failed to resolve alias"))
       \/ \E r \in ResolveAlias(Engine, alias[w]) :
            /\ Log(w, "GetAlias", alias[w], TRUE)
            /\ IF CreateIndexOnResolve(r.found) = "conflict"
               THEN Reply(w, Failure(StatusConflict, "index/alias already exists"))
               ELSE Goto(w, CreateIndexOnResolve(r.found))
    /\ UNCHANGED <<now, engineVars, workers, dataVars, served, op, alias, indexName, newIndexName, pre>>

\* ec.CreateIndex(indexName, payload): the payload names the alias.
CreateIndexCreate(w) ==
    /\ w \in workers /\ pc[w] = "crt_create"
    /\ \/ /\ \E f \in Failures : Reply(w, EsError(f, "failed to create index"))
          /\ Log(w, "Create", indexName[w], FALSE)
          /\ UNCHANGED engineVars
       \/ /\ indexName[w] \in indices
          /\ Reply(w, EsError("rej", "The specified index already exists."))
          /\ Log(w, "Create", indexName[w], FALSE)
          /\ UNCHANGED engineVars
       \/ /\ indexName[w] \notin indices
          /\ SetEngine(EsCreate(Engine, indexName[w], CreateIndexAliases(alias[w])))
          /\ Log(w, "Create", indexName[w], TRUE)
          /\ Reply(w, Success("index created successfully"))
    /\ UNCHANGED <<now, workers, dataVars, served, op, alias, indexName, newIndexName, pre>>

\* ---- UpdateIndex ---------------------------------------------------------
\* What the handler does with ResolveAlias's answer.  The not-found error is
\* an error like any other to this handler (its nil Details make the handler
\* panic while it builds the error envelope); the create-if-absent branch
\* waits for an empty name without an error, which ResolveAlias returns only
\* for a 200 answer with an empty map.
UpdateIndexOnResolve(found) == IF found THEN "upd_mapping" ELSE "panic"

\* Mutant: no return after a failed alias swap.
UpdateIndexAfterNoReturn(stage, ok) ==
    CASE stage = "mapping" -> IF ok THEN "return" ELSE "upd_reindex_create"
      [] stage = "reindex_create" -> IF ok THEN "upd_reindex_copy" ELSE "error"
      [] stage = "reindex_copy" -> IF ok THEN "upd_alias" ELSE "error"
      [] stage = "alias" -> "upd_delete"
      [] stage = "delete" -> IF ok THEN "success" ELSE "error"

\* Mutant: the reindex path is taken when the mapping update succeeded.
UpdateIndexAfterInverted(stage, ok) ==
    CASE stage = "mapping" -> IF ok THEN "upd_reindex_create" ELSE "return"
      [] stage = "reindex_create" -> IF ok THEN "upd_reindex_copy" ELSE "error"
      [] stage = "reindex_copy" -> IF ok THEN "upd_alias" ELSE "error"
      [] stage = "alias" -> IF ok THEN "upd_delete" ELSE "error"
      [] stage = "delete" -> IF ok THEN "success" ELSE "error"

\* Mutant: the alias is swapped whatever the copy answered.
UpdateIndexAfterCopyIgnored(stage, ok) ==
    CASE stage = "mapping" -> IF ok THEN "return" ELSE "upd_reindex_create"
      [] stage = "reindex_create" -> IF ok THEN "upd_reindex_copy" ELSE "error"
      [] stage = "reindex_copy" -> "upd_alias"
      [] stage = "alias" -> IF ok THEN "upd_delete" ELSE "error"
      [] stage = "delete" -> IF ok THEN "success" ELSE "error"

\* Mutant: the copy is tried whatever the creation answered.
UpdateIndexAfterCreateIgnored(stage, ok) ==
    CASE stage = "mapping" -> IF ok THEN "return" ELSE "upd_reindex_create"
      [] stage = "reindex_create" -> "upd_reindex_copy"
      [] stage = "reindex_copy" -> IF ok THEN "upd_alias" ELSE "error"
      [] stage = "alias" -> IF ok THEN "upd_delete" ELSE "error"
      [] stage = "delete" -> IF ok THEN "success" ELSE "error"

\* Where the handler goes after each of its engine calls.  An accepted
\* mapping update ends the handler (no branch writes a response for it); a
\* rejected one starts the reindex; every later failure is answered and the
\* handler returns.
UpdateIndexAfter(stage, ok) ==
    CASE stage = "mapping" -> IF ok THEN "return" ELSE "upd_reindex_create"
      [] stage = "reindex_create" -> IF ok THEN "upd_reindex_copy" ELSE "error"
      [] stage = "reindex_copy" -> IF ok THEN "upd_alias" ELSE "error"
      [] stage = "alias" -> IF ok THEN "upd_delete" ELSE "error"
      [] stage = "delete" -> IF ok THEN "success" ELSE "error"

\* One step of UpdateIndex that ends in `to`: answer and return, return
\* without an answer, or go on.
UpdateIndexStep(w, to, failure) ==
    CASE to = "error" -> Reply(w, failure)
      [] to = "success" -> Reply(w, Success("Index updated successfully (re-indexed)"))
      [] to = "return" -> /\ pc' = [pc EXCEPT ![w] = "done"]
                          /\ UNCHANGED resp
      [] OTHER -> Goto(w, to)

UpdateIndexStart(w) ==
    \E a \in Aliases, valid \in BOOLEAN :
        IF valid
        THEN Start(w, "UpdateIndex", a, "upd_resolve", None, <<>>)
        ELSE Start(w, "UpdateIndex", a, "done", None,
                   <<Failure(StatusBadRequest, "Invalid request payload")>>)

\* ec.ResolveAlias(alias)
UpdateIndexResolve(w) ==
    /\ w \in workers /\ pc[w] = "upd_resolve"
    /\ \/ /\ \E f \in Failures : Reply(w, EsError(f, "failed to resolve alias"))
          /\ Log(w, "GetAlias", alias[w], FALSE)
          /\ UNCHANGED indexName
       \/ \E r \in ResolveAlias(Engine, alias[w]) :
            /\ Log(w, "GetAlias", alias[w], TRUE)
            /\ indexName' = [indexName EXCEPT ![w] = r.name]
            /\ IF UpdateIndexOnResolve(r.found) = "panic"
               THEN Reply(w, Panic)
               ELSE Goto(w, UpdateIndexOnResolve(r.found))
    /\ UNCHANGED <<now, engineVars, workers, dataVars, served, op, alias, newIndexName, pre>>

\* ec.UpdateIndexMappings(indexName, payload); on its failure the new name is
\* derived from the clock.
UpdateIndexMapping(w) ==
    /\ w \in workers /\ pc[w] = "upd_mapping"
    /\ \E ok \in BOOLEAN :
        /\ ok => indexName[w] \in indices
        /\ Log(w, "PutMapping", indexName[w], ok)
        /\ UpdateIndexStep(w, UpdateIndexAfter("mapping", ok),
                           EsError("rej", "failed to update index mappings"))
        /\ newIndexName' = [newIndexName EXCEPT ![w] =
                IF UpdateIndexAfter("mapping", ok) = "upd_reindex_create"
                THEN NewIndexName(alias[w], now) ELSE @]
    /\ UNCHANGED <<now, engineVars, workers, dataVars, served, op, alias, indexName, pre>>

\* Reindex, first call: e.CreateIndex(newIndex, payload); the payload of
\* UpdateIndex names no alias.  Its failure is wrapped as a connection error.
UpdateIndexReindexCreate(w) ==
    /\ w \in workers /\ pc[w] = "upd_reindex_create"
    /\ \E ok \in BOOLEAN :
        /\ ok => newIndexName[w] \notin indices
        /\ Log(w, "Create", newIndexName[w], ok)
        /\ IF ok THEN SetEngine(EsCreate(Engine, newIndexName[w], {}))
                 ELSE UNCHANGED engineVars
        /\ UpdateIndexStep(w, UpdateIndexAfter("reindex_create", ok),
                           EsError("conn", "failed to reindex data"))
    /\ UNCHANGED <<now, workers, dataVars, served, op, alias, indexName, newIndexName, pre>>

\* Reindex, second call: e.client.Reindex(reindexBody).  The engine copies
\* every document of the source into the destination, and refuses to copy an
\* index into itself; a failed copy may have copied any part of the source.
UpdateIndexReindexCopy(w) ==
    /\ w \in workers /\ pc[w] = "upd_reindex_copy"
    /\ LET body == ReindexBody(indexName[w], newIndexName[w]) IN
       \/ /\ body.source \in indices /\ body.dest \in indices
          /\ body.source # body.dest
          /\ SetEngine(EsCopy(Engine, body.dest, docs[body.source]))
          /\ Log(w, "Reindex", newIndexName[w], TRUE)
          /\ UpdateIndexStep(w, UpdateIndexAfter("reindex_copy", TRUE),
                             EsError("rej", "failed to reindex data"))
       \/ \E f \in Failures, part \in SUBSET docs[body.source] :
          /\ IF body.dest \in indices /\ body.source # body.dest
             THEN SetEngine(EsCopy(Engine, body.dest, part))
             ELSE UNCHANGED engineVars
          /\ Log(w, "Reindex", newIndexName[w], FALSE)
          /\ UpdateIndexStep(w, UpdateIndexAfter("reindex_copy", FALSE),
                             EsError(f, "failed to reindex data"))
    /\ UNCHANGED <<now, workers, dataVars, served, op, alias, indexName, newIndexName, pre>>

\* ec.UpdateAlias(alias, newIndexName)
UpdateIndexAlias(w) ==
    /\ w \in workers /\ pc[w] = "upd_alias"
    /\ \/ /\ newIndexName[w] \in indices
          /\ SetEngine(EsAliasAdd(Engine, alias[w], newIndexName[w]))
          /\ Log(w, "UpdateAliases", newIndexName[w], TRUE)
          /\ UpdateIndexStep(w, UpdateIndexAfter("alias", TRUE),
                             EsError("rej", "failed to update alias"))
       \/ \E f \in Failures :
          /\ UNCHANGED engineVars
          /\ Log(w, "UpdateAliases", newIndexName[w], FALSE)
          /\ UpdateIndexStep(w, UpdateIndexAfter("alias", FALSE),
                             EsError(f, "failed to update alias"))
    /\ UNCHANGED <<now, workers, dataVars, served, op, alias, indexName, newIndexName, pre>>

\* ec.DeleteIndex(indexName): the old index.
UpdateIndexDelete(w) ==
    /\ w \in workers /\ pc[w] = "upd_delete"
    /\ \/ /\ indexName[w] \in indices
          /\ SetEngine(EsDelete(Engine, indexName[w]))
          /\ Log(w, "Delete", indexName[w], TRUE)
          /\ UpdateIndexStep(w, UpdateIndexAfter("delete", TRUE),
                             EsError("rej", "failed to delete elastic client"))
       \/ \E f \in Failures :
          /\ UNCHANGED engineVars
          /\ Log(w, "Delete", indexName[w], FALSE)
          /\ UpdateIndexStep(w, UpdateIndexAfter("delete", FALSE),
                             EsError(f, "failed to delete elastic client"))
    /\ UNCHANGED <<now, workers, dataVars, served, op, alias, indexName, newIndexName, pre>>

\* ---- DeleteIndex ---------------------------------------------------------
DeleteIndexStart(w) ==
    \E a \in Aliases : Start(w, "DeleteIndex", a, "del_resolve", None, <<>>)

\* ec.ResolveAlias(alias); the not-found error panics as in UpdateIndex.
DeleteIndexResolve(w) ==
    /\ w \in workers /\ pc[w] = "del_resolve"
    /\ \/ /\ \E f \in Failures : Reply(w, EsError(f, "failed to resolve alias"))
          /\ Log(w, "GetAlias", alias[w], FALSE)
          /\ UNCHANGED indexName
       \/ \E r \in ResolveAlias(Engine, alias[w]) :
            /\ Log(w, "GetAlias", alias[w], TRUE)
            /\ indexName' = [indexName EXCEPT ![w] = r.name]
            /\ IF r.found THEN Goto(w, "del_delete") ELSE Reply(w, Panic)
    /\ UNCHANGED <<now, engineVars, workers, dataVars, served, op, alias, newIndexName, pre>>

\* ec.DeleteIndex(indexName)
DeleteIndexDelete(w) ==
    /\ w \in workers /\ pc[w] = "del_delete"
    /\ \/ /\ indexName[w] \in indices
          /\ SetEngine(EsDelete(Engine, indexName[w]))
          /\ Log(w, "Delete", indexName[w], TRUE)
          /\ Reply(w, Success("alias deleted successfully"))
       \/ \E f \in Failures :
          /\ UNCHANGED engineVars
          /\ Log(w, "Delete", indexName[w], FALSE)
          /\ Reply(w, EsError(f, "failed to delete elastic client"))
    /\ UNCHANGED <<now, workers, dataVars, served, op, alias, indexName, newIndexName, pre>>

\* ---- AddData -------------------------------------------------------------
\* AddBatchData(alias, data): one bulk call whose actions name the alias.  An
\* item the engine cannot place fails inside a 200 answer, which the wrapper
\* does not read.
AddData(w) ==
    \E a \in Aliases, d \in Docs :
        /\ Idle(w)
        /\ served' = served + 1
        /\ pc' = [pc EXCEPT ![w] = "done"]
        /\ op' = [op EXCEPT ![w] = "AddData"]
        /\ alias' = [alias EXCEPT ![w] = a]
        /\ indexName' = [indexName EXCEPT ![w] = None]
        /\ newIndexName' = [newIndexName EXCEPT ![w] = None]
        /\ pre' = [pre EXCEPT ![w] = Engine]
        /\ \/ /\ SetEngine(EsIndexDoc(Engine, a, d))
              /\ calls' = [calls EXCEPT ![w] = <<Call("Bulk", a, TRUE)>>]
              /\ resp' = [resp EXCEPT ![w] = <<Success("data added successfully")>>]
           \/ \E f \in Failures :
              /\ UNCHANGED engineVars
              /\ calls' = [calls EXCEPT ![w] = <<Call("Bulk", a, FALSE)>>]
              /\ resp' = [resp EXCEPT ![w] = <<EsError(f, "bulk request failed")>>]
        /\ UNCHANGED <<now, workers, dataVars>>

\* One second passes.
Tick ==
    /\ now < MaxTime
    /\ now' = now + 1
    /\ UNCHANGED <<engineVars, workers, dataVars, reqVars>>

Next ==
    \/ Tick
    \/ \E w \in AllWorkers :
        \/ CreateIndexStart(w)
        \/ CreateIndexResolve(w)
        \/ CreateIndexCreate(w)
        \/ UpdateIndexStart(w)
        \/ UpdateIndexResolve(w)
        \/ UpdateIndexMapping(w)
        \/ UpdateIndexReindexCreate(w)
        \/ UpdateIndexReindexCopy(w)
        \/ UpdateIndexAlias(w)
        \/ UpdateIndexDelete(w)
        \/ DeleteIndexStart(w)
        \/ DeleteIndexResolve(w)
        \/ DeleteIndexDelete(w)
        \/ AddData(w)

\* Requests may overlap: every worker serves.
Spec == Init /\ [][Next]_vars

\* Requests arrive one after another: one worker serves.
InitSeq ==
    /\ now = 1
    /\ indices = {}
    /\ docs = [n \in PhysNames |-> {}]
    /\ aliases = [a \in Aliases |-> {}]
    /\ workers = {1}
    /\ served = 0
    /\ pc = [w \in AllWorkers |-> "idle"]
    /\ op = [w \in AllWorkers |-> "none"]
    /\ alias = [w \in AllWorkers |-> None]
    /\ indexName = [w \in AllWorkers |-> None]
    /\ newIndexName = [w \in AllWorkers |-> None]
    /\ resp = [w \in AllWorkers |-> <<>>]
    /\ calls = [w \in AllWorkers |-> <<>>]
    /\ pre = [w \in AllWorkers |-> None]
    /\ DataIdle

SpecSeq == InitSeq /\ [][Next]_vars

\* ---- the data plane: envelopes and engine errors -------------------------
\* The raw reasons the engine or the transport gives for a failure.
Reasons == {"reason-1", "reason-2"}
\* A call whose answer is decoded can also fail in the decoding.
DecodeFailures == Failures \cup {"decode"}

\* errors.ElasticsearchError as the wrappers of package elastic build it: a
\* transport failure is a 500 connection error carrying the transport's
\* error, an answer that cannot be decoded a 500 decode error, an answer
\* without the scroll id a 500 parse error, and an error
\* answer is parsed by ParseElasticsearchError, which keeps the engine's
\* status and carries the engine's reason as Details.
ElasticsearchError(f, reason, msg) ==
    CASE f = "conn" -> [StatusCode |-> StatusInternalServerError,
                        Message |-> "failed to connect to elastic server",
                        Details |-> reason, Type |-> "connection_error"]
      [] f = "decode" -> [StatusCode |-> StatusInternalServerError,
                          Message |-> "failed to decode elastic response",
                          Details |-> reason, Type |-> "decode_error"]
      [] f = "parse" -> [StatusCode |-> StatusInternalServerError,
                         Message |-> msg, Details |-> msg, Type |-> "parse_error"]
      [] OTHER -> [StatusCode |-> StatusBadRequest, Message |-> msg,
                   Details |-> reason, Type |-> "engine_error"]

\* response.ErrResponse and response.SuccessResponse (Ts left out).
ErrResponse(code, msg, det, type) ==
    [ok |-> FALSE, code |-> code, message |-> msg, details |-> det, type |-> type,
     data |-> <<>>]
SuccessResponse(msg, data) ==
    [ok |-> TRUE, code |-> StatusOK, message |-> msg, details |-> "", type |-> "",
     data |-> data]
\* The envelope every handler fills from a wrapper's error.
FromEsError(esErr) ==
    ErrResponse(esErr.StatusCode, esErr.Message, esErr.Details, esErr.Type)
\* response.SendErrorResponse: the details are cleared unless d is set.
SendErrorResponse(r) == IF details THEN r ELSE [r EXCEPT !.details = ""]
\* What gin.Recovery answers when the handler panicked: a bare 500.
Recovered == ErrResponse(StatusInternalServerError, "", "", "")

\* The request context is done.
CtxDone == expiredAt # "never"
\* The handler calls the engine.
Issue(api, arg, ok) ==
    esCalls' = Append(esCalls, [api |-> api, arg |-> arg, ok |-> ok, late |-> CtxDone])

\* ---- JSON lines and Go values --------------------------------------------
\* An integer e * 2^53 + v, written <<e, v>>.
NoNumber == <<>>
Numbers == {<<0, 7>>, <<1, 1>>}
\* The float64 nearest to an integer below 2^54: integers below 2^53 are
\* exact; from 2^53 on only the even ones are, and an odd one lies halfway
\* between two floats and goes to the one with the even mantissa.
Float64(n) ==
    IF n[1] = 0 \/ n[2] % 2 = 0 THEN n
    ELSE IF ((n[2] - 1) \div 2) % 2 = 0 THEN <<n[1], n[2] - 1>>
    ELSE <<n[1], n[2] + 1>>

\* One line of text: a JSON object (with or without the key "index", with or
\* without a number field n), the JSON null, a JSON array, or no JSON at all.
Line(t, index, n) == [t |-> t, index |-> index, n |-> n]
\* {"index":{"_index":"<index>"}}
MetaLine(index) == Line("object", index, NoNumber)
\* {"n": <n>}
DocLine(n) == Line("object", "", n)
NullLine == Line("null", "", NoNumber)
Lines ==
    {MetaLine(a) : a \in Aliases} \cup {DocLine(n) : n \in Numbers}
        \cup {NullLine, Line("array", "", NoNumber), Line("text", "", NoNumber)}

\* A Go map[string]interface{}; the nil map.
GoMap(index, n) == [nil |-> FALSE, index |-> index, n |-> n]
Nil == [nil |-> TRUE, index |-> "", n |-> NoNumber]
\* json.Unmarshal(line, &m) with m a map[string]interface{}: an object fills
\* the map, its numbers as float64; null leaves the nil map and is no error;
\* anything else is an error.
Unmarshal(line) ==
    CASE line.t = "object" ->
            [err |-> FALSE,
             map |-> GoMap(line.index,
                           IF line.n = NoNumber THEN NoNumber ELSE Float64(line.n))]
      [] line.t = "null" -> [err |-> FALSE, map |-> Nil]
      [] OTHER -> [err |-> TRUE, map |-> Nil]
\* json.Marshal(m)
Marshal(m) == IF m.nil THEN NullLine ELSE Line("object", m.index, m.n)
\* _, exists := meta["index"]
HasIndex(m) == ~m.nil /\ m.index # ""

\* ---- export ----------------------------------------------------------------
MaxScrollIterations == 100
\* Hits of a page: at most this many.
MaxPageSize == 2
\* An export of few documents has at most this many pages of them.
MaxFewPages == 3
\* A short index of documents with numbers of every kind has at most this many.
MaxStored == 2

\* The id of the scroll context the engine opens.
ScrollContext == "scroll-1"
\* The j-th document of a long index.
Numbered(n) == [j \in 1..n |-> DocLine(<<0, j>>)]
\* How many documents match: few, or about as many as the loop can read.
HitCounts(p) ==
    {n \in 0..((MaxScrollIterations + 2) * p) :
        n <= MaxFewPages * p \/ n >= (MaxScrollIterations - 1) * p}
RECURSIVE Stored(_)
Stored(len) ==
    IF len = 0 THEN {<<>>}
    ELSE Stored(len - 1)
            \cup {Append(s, DocLine(n)) : s \in {x \in Stored(len - 1) : Len(x) = len - 1},
                                          n \in Numbers}
\* What the index an export reads can hold.
HitLists(p) == {Numbered(n) : n \in HitCounts(p)} \cup Stored(MaxStored)

\* The engine's page after `from` hits have been served.
EsPage(h, p, from) ==
    IF from >= Len(h) THEN <<>>
    ELSE SubSeq(h, from + 1, IF from + p < Len(h) THEN from + p ELSE Len(h))

\* Mutant: a page replaces what was collected.
AppendHitsReplace(collected, hits) ==
    [k \in 1..Len(hits) |-> Unmarshal(hits[k]).map]

\* documents = append(documents, hit["_source"]) for every hit of the
\* decoded page.
AppendHits(collected, hits) ==
    collected \o [k \in 1..Len(hits) |-> Unmarshal(hits[k]).map]

\* Mutant: the loop has no ceiling.
ExportLoopContinuesAlways(it) == TRUE

\* Mutant: the loop stops one iteration early.
ExportLoopContinuesEarly(it) == it + 1 < MaxScrollIterations

\* for i := 0; i < MaxScrollIterations; i++
ExportLoopContinues(it) == it < MaxScrollIterations

\* The handler's NDJSON: per document an action line naming the alias and
\* the document's JSON.
BulkPayload(a, ds) ==
    [k \in 1..(2 * Len(ds)) |->
        IF k % 2 = 1 THEN MetaLine(a) ELSE Marshal(ds[k \div 2])]
\* What the handler writes for the documents ExportDocuments returned.
ExportOutput(req, ds) ==
    SuccessResponse("", IF req.bulk THEN BulkPayload(req.alias, ds) ELSE ds)

\* return nil, err: the handler answers the error.
ExportFail(esErr) ==
    /\ at' = "done"
    /\ sent' = Append(sent, SendErrorResponse(FromEsError(esErr)))
\* return documents, nil: the handler answers the documents.
ExportSucceed(ds) ==
    /\ at' = "done"
    /\ sent' = Append(sent, ExportOutput(request, ds))

\* The handler binds the alias, the optional body and the bulk parameter; a
\* body that does not bind is answered 400.
ExportStart ==
    /\ at = "idle"
    /\ \E a \in Aliases, bulk \in BOOLEAN, bodyOk \in BOOLEAN :
         /\ request' = [alias |-> a, bulk |-> bulk, bodyOk |-> bodyOk]
         /\ IF bodyOk
            THEN /\ at' = "search"
                 /\ UNCHANGED sent
            ELSE /\ at' = "done"
                 /\ sent' = <<SendErrorResponse(ErrResponse(StatusBadRequest,
                                "invalid request payload", "invalid request payload",
                                "bad_request"))>>
    /\ handler' = "ExportDocuments"
    /\ UNCHANGED <<details, esCalls, exportVars, lifeVars>>

\* The request's deadline passes while the export is at work.
ExportDeadline ==
    /\ at \in {"search", "scroll", "clear"}
    /\ ~CtxDone
    /\ expiredAt' = at
    /\ UNCHANGED <<details, handler, at, request, sent, esCalls, hitlist, size, scroll,
                   documents, scrollID, iteration, lifeVars>>

\* The initial search, sent with scroll = MaxScrollTime: the engine answers
\* the first page and the total, and keeps a scroll context open.  When the
\* first page has every hit the documents are returned at once.
ExportSearch ==
    /\ at = "search"
    /\ \/ \E f \in Failures, r \in Reasons :
            /\ CtxDone => f = "conn"
            /\ Issue("Search", request.alias, FALSE)
            /\ ExportFail(ElasticsearchError(f, r, "failed to search documents for export"))
            /\ UNCHANGED <<hitlist, size, scroll, documents, scrollID, iteration>>
       \/ /\ ~CtxDone
          /\ \E p \in 1..MaxPageSize : \E h \in HitLists(p) :
               /\ hitlist' = h
               /\ size' = p
               /\ scroll' = [id |-> ScrollContext, pos |-> Len(EsPage(h, p, 0))]
               /\ \/ \E r \in Reasons :
                       /\ Issue("Search", request.alias, FALSE)
                       /\ ExportFail(ElasticsearchError("decode", r, ""))
                       /\ UNCHANGED <<documents, scrollID, iteration>>
                  \/ /\ Issue("Search", request.alias, TRUE)
                     /\ documents' = AppendHits(<<>>, EsPage(h, p, 0))
                     /\ IF Len(EsPage(h, p, 0)) >= Len(h)
                        THEN /\ ExportSucceed(AppendHits(<<>>, EsPage(h, p, 0)))
                             /\ UNCHANGED <<scrollID, iteration>>
                        ELSE \E sid \in {ScrollContext, ""} :
                               IF sid = ""
                               THEN /\ ExportFail(ElasticsearchError("parse", "",
                                         "failed to get scroll_id from response"))
                                    /\ UNCHANGED <<scrollID, iteration>>
                               ELSE /\ scrollID' = sid
                                    /\ iteration' = 0
                                    /\ at' = "scroll"
                                    /\ UNCHANGED sent
    /\ UNCHANGED <<details, handler, request, expiredAt, lifeVars>>

\* One turn of the loop: the scroll call and what the loop does with its
\* page.  An error returns at once; an empty page, or a page without a scroll
\* id, ends the loop; so does the counter.
ExportScroll ==
    /\ at = "scroll"
    /\ \/ \E f \in Failures, r \in Reasons :
            /\ CtxDone => f = "conn"
            /\ Issue("Scroll", scrollID, FALSE)
            /\ ExportFail(ElasticsearchError(f, r, "failed to scroll documents to export"))
            /\ UNCHANGED <<scroll, documents, scrollID, iteration>>
       \/ /\ ~CtxDone
          /\ scroll.id = scrollID
          /\ scroll' = [scroll EXCEPT !.pos = @ + Len(EsPage(hitlist, size, scroll.pos))]
          /\ \/ \E r \in Reasons :
                  /\ Issue("Scroll", scrollID, FALSE)
                  /\ ExportFail(ElasticsearchError("decode", r, ""))
                  /\ UNCHANGED <<documents, scrollID, iteration>>
             \/ \E sid \in {ScrollContext, ""} :
                  LET hits == EsPage(hitlist, size, scroll.pos) IN
                  /\ Issue("Scroll", scrollID, TRUE)
                  /\ UNCHANGED sent
                  /\ IF Len(hits) = 0
                     THEN /\ at' = "clear"
                          /\ UNCHANGED <<documents, scrollID, iteration>>
                     ELSE /\ documents' = AppendHits(documents, hits)
                          /\ scrollID' = sid
                          /\ IF sid = ""
                             THEN at' = "clear" /\ UNCHANGED iteration
                             ELSE /\ iteration' = iteration + 1
                                  /\ at' = IF ExportLoopContinues(iteration + 1)
                                           THEN "scroll" ELSE "clear"
    /\ UNCHANGED <<details, handler, request, hitlist, size, expiredAt, lifeVars>>

\* After the loop: the scroll context of scrollID is released; a failure of
\* the release is logged and nothing more.  Then the documents are returned.
ExportClear ==
    /\ at = "clear"
    /\ \/ /\ ~CtxDone /\ scrollID # "" /\ scroll.id = scrollID
          /\ Issue("ClearScroll", scrollID, TRUE)
          /\ scroll' = NoScroll
       \/ /\ Issue("ClearScroll", scrollID, FALSE)
          /\ UNCHANGED scroll
    /\ ExportSucceed(documents)
    /\ UNCHANGED <<details, handler, request, hitlist, size, expiredAt, documents,
                   scrollID, iteration, lifeVars>>

\* ---- import ------------------------------------------------------------------
\* Lines of a stream a client sends: at most this many.
MaxLines == 3
\* The logical index an import names.
IndexNames == {"archive"}

RECURSIVE Streams(_)
Streams(len) ==
    IF len = 0 THEN {<<>>}
    ELSE Streams(len - 1)
            \cup {Append(s, l) : s \in {x \in Streams(len - 1) : Len(x) = len - 1},
                                 l \in Lines}

Parsed(err, ds) == [err |-> err, documents |-> ds]

\* One turn of parseBulkJSON's loop on the k-th pair of lines: an action line
\* that must unmarshal into a map with the key "index", and a document line
\* that must be there and unmarshal into a map.  The error, or "".
PairError(data, k) ==
    IF Unmarshal(data[2 * k - 1]).err THEN "invalid metadata line in bulk JSON"
    ELSE IF ~HasIndex(Unmarshal(data[2 * k - 1]).map)
         THEN "metadata line must contain an 'index' field"
    ELSE IF Len(data) < 2 * k THEN "missing document line in bulk JSON"
    ELSE IF Unmarshal(data[2 * k]).err THEN "invalid document line in bulk JSON"
    ELSE ""

\* parseBulkJSON: the scanner's lines are taken two by two; the first pair
\* in error ends the parse with its error, and without one the documents are
\* the maps of the document lines.
parseBulkJSON(data) ==
    LET pairs == (Len(data) + 1) \div 2
        bad == {k \in 1..pairs : PairError(data, k) # ""}
    IN IF bad # {}
       THEN Parsed(PairError(data, CHOOSE k \in bad : \A j \in bad : k <= j), <<>>)
       ELSE Parsed("", [k \in 1..pairs |-> Unmarshal(data[2 * k]).map])

\* parsePureJSON: the whole text must unmarshal into a slice of maps; of the
\* lines here the array (an empty one) and null do.
parsePureJSON(data) ==
    IF Len(data) = 1 /\ data[1].t \in {"array", "null"} THEN Parsed("", <<>>)
    ELSE Parsed("invalid JSON format", <<>>)

\* Mutant: the index actions name the index of the exported stream.
BulkBodyKeepsSource(index, ds) ==
    [k \in 1..(2 * Len(ds)) |->
        IF k % 2 = 1 THEN MetaLine("products") ELSE Marshal(ds[k \div 2])]

\* elastic.ImportDocuments: per document an index action for `index` and the
\* document's JSON.
BulkBody(index, ds) ==
    [k \in 1..(2 * Len(ds)) |->
        IF k % 2 = 1 THEN MetaLine(index) ELSE Marshal(ds[k \div 2])]

\* The handler, from the bound form to its answer.
ImportRun(a, index, stream, bulk, origin) ==
    /\ handler' = "ImportDocuments"
    /\ request' = [alias |-> a, index |-> index, json |-> stream, bulk |-> bulk,
                   origin |-> origin]
    /\ at' = "done"
    /\ IF Len(stream) = 0
       THEN /\ esCalls' = <<>>
            /\ sent' = <<SendErrorResponse(ErrResponse(StatusBadRequest,
                            "no file or JSON content provided",
                            "no file or JSON content provided", "bad_request"))>>
       ELSE LET parsed == IF bulk THEN parseBulkJSON(stream) ELSE parsePureJSON(stream) IN
            IF parsed.err # ""
            THEN /\ esCalls' = <<>>
                 /\ sent' = <<SendErrorResponse(ErrResponse(StatusBadRequest,
                                 "failed to parse input", parsed.err, "bad_request"))>>
            ELSE \/ /\ esCalls' = <<[api |-> "Bulk", arg |-> BulkBody(index, parsed.documents),
                                     ok |-> TRUE, late |-> FALSE]>>
                    /\ sent' = <<SuccessResponse("documents imported successfully", <<>>)>>
                 \/ \E f \in Failures, r \in Reasons :
                    /\ esCalls' = <<[api |-> "Bulk", arg |-> BulkBody(index, parsed.documents),
                                     ok |-> FALSE, late |-> FALSE]>>
                    /\ sent' = <<SendErrorResponse(FromEsError(
                                    ElasticsearchError(f, r, "failed to bulk import")))>>

\* POST /documents/:alias/import with the form fields index, json and bulk.
\* The client sends a stream of its own, or the NDJSON a bulk export answered.
ImportDocuments ==
    /\ \/ /\ at = "idle"
          /\ \E a \in Aliases, index \in IndexNames, stream \in Streams(MaxLines),
                bulk \in BOOLEAN :
                ImportRun(a, index, stream, bulk, "client")
       \/ /\ at = "done" /\ handler = "ExportDocuments"
          /\ request.bulk /\ sent[1].ok
          /\ \E a \in Aliases, index \in IndexNames :
                ImportRun(a, index, sent[1].data, TRUE, "export")
    /\ UNCHANGED <<details, exportVars, lifeVars>>

\* ---- documents by id -----------------------------------------------------------
DocIDs == {"1", "2"}
\* The route /documents/:alias/:id names the path parameters alias and id.
RouteParams(a, id) == [alias |-> a, id |-> id]
\* c.Param(key): the empty string when the route has no such parameter.
Param(params, key) == IF key \in DOMAIN params THEN params[key] ELSE ""

BadRequest(msg) == SendErrorResponse(ErrResponse(StatusBadRequest, msg, msg, "bad_request"))

\* A handler of one engine call on <<alias, docID>>: the call, and the answer
\* made of its outcome.
DocumentCall(api, a, docID, failures, msg, done) ==
    \/ /\ esCalls' = <<[api |-> api, arg |-> <<a, docID>>, ok |-> TRUE, late |-> FALSE]>>
       /\ sent' = <<SuccessResponse(done, <<>>)>>
    \/ \E f \in failures, r \in Reasons :
       /\ esCalls' = <<[api |-> api, arg |-> <<a, docID>>, ok |-> FALSE, late |-> FALSE]>>
       /\ sent' = <<SendErrorResponse(FromEsError(ElasticsearchError(f, r, msg)))>>

\* What a handler of a document does once it has read alias and docID.
DocumentHandler(api, a, docID, bodyOk, failures, msg, done) ==
    IF a = "" THEN sent' = <<BadRequest("alias name is required in URI")>> /\ esCalls' = <<>>
    ELSE IF docID = "" THEN sent' = <<BadRequest("document ID is required")>> /\ esCalls' = <<>>
    ELSE IF ~bodyOk THEN sent' = <<BadRequest("invalid request payload")>> /\ esCalls' = <<>>
    ELSE DocumentCall(api, a, docID, failures, msg, done)

\* GET /documents/:alias/:id
GetDocument ==
    /\ at = "idle"
    /\ \E a \in Aliases, id \in DocIDs :
        /\ request' = [params |-> RouteParams(a, id), bodyOk |-> TRUE]
        /\ DocumentHandler("Get", Param(RouteParams(a, id), "alias"),
                           Param(RouteParams(a, id), "id"), TRUE, DecodeFailures,
                           "failed to fetch document", "document fetched successfully")
    /\ handler' = "GetDocumentByID"
    /\ at' = "done"
    /\ UNCHANGED <<details, exportVars, lifeVars>>

\* PUT /documents/:alias/:id: the handler reads the parameter "index".
UpdateDocument ==
    /\ at = "idle"
    /\ \E a \in Aliases, id \in DocIDs, bodyOk \in BOOLEAN :
        /\ request' = [params |-> RouteParams(a, id), bodyOk |-> bodyOk]
        /\ DocumentHandler("Update", Param(RouteParams(a, id), "index"),
                           Param(RouteParams(a, id), "id"), bodyOk, Failures,
                           "failed to update document", "document updated successfully")
    /\ handler' = "UpdateDocument"
    /\ at' = "done"
    /\ UNCHANGED <<details, exportVars, lifeVars>>

\* DELETE /documents/:alias/:id
DeleteDocument ==
    /\ at = "idle"
    /\ \E a \in Aliases, id \in DocIDs :
        /\ request' = [params |-> RouteParams(a, id), bodyOk |-> TRUE]
        /\ DocumentHandler("Delete", Param(RouteParams(a, id), "alias"),
                           Param(RouteParams(a, id), "id"), TRUE, Failures,
                           "failed to delete document", "document deleted")
    /\ handler' = "DeleteDocument"
    /\ at' = "done"
    /\ UNCHANGED <<details, exportVars, lifeVars>>

\* ---- Exists --------------------------------------------------------------------
\* GET /indices/:alias/exists, first call: ec.ResolveAlias(alias).  Its errors
\* go through SendErrorResponse; the not-found error has nil Details and the
\* handler panics on them.
ExistsResolve ==
    /\ at = "idle"
    /\ handler' = "Exists"
    /\ \E a \in Aliases :
        \/ \E f \in Failures, r \in Reasons :
            /\ request' = [alias |-> a, indexName |-> None]
            /\ Issue("GetAlias", a, FALSE)
            /\ sent' = <<SendErrorResponse(FromEsError(
                            ElasticsearchError(f, r, "failed to resolve alias")))>>
            /\ at' = "done"
        \/ \E res \in ResolveAlias(Engine, a) :
            /\ request' = [alias |-> a, indexName |-> res.name]
            /\ Issue("GetAlias", a, TRUE)
            /\ IF res.found THEN at' = "exists_check" /\ UNCHANGED sent
                            ELSE at' = "done" /\ sent' = <<Recovered>>
    /\ UNCHANGED <<details, exportVars, lifeVars>>

\* Second call: ec.CheckIndex(indexName).  A wrapper error is written with
\* c.JSON, the Details in it.
ExistsCheck ==
    /\ at = "exists_check"
    /\ \/ /\ request.indexName \in indices
          /\ Issue("Exists", request.indexName, TRUE)
          /\ sent' = <<SuccessResponse("alias exists", <<>>)>>
       \/ \E f \in Failures, r \in Reasons :
          /\ Issue("Exists", request.indexName, FALSE)
          /\ sent' = <<FromEsError(ElasticsearchError(f, r,
                            "failed to check for index or does not exist"))>>
    /\ at' = "done"
    /\ UNCHANGED <<details, handler, request, exportVars, lifeVars>>

\* ---- field schemas -------------------------------------------------------------
\* Levels of properties below a field: at most this many.
MaxDepth == 2
FieldNames == {"f"}
FieldTypes == {"text", "keyword", "nested"}

\* model.FieldConfig (the analyzers, which generateProperties does not read,
\* left out); map[string]FieldConfig of at most `depth` levels.
RECURSIVE FieldMaps(_)
FieldMaps(depth) ==
    IF depth = 0 THEN {<<>>}
    ELSE UNION {[S -> [Type : FieldTypes, Autocomplete : BOOLEAN, Search : BOOLEAN,
                       Properties : FieldMaps(depth - 1)]] : S \in SUBSET FieldNames}

\* The sub-fields of a text field with autocomplete or search.
SubFields(c) ==
    IF c.Type = "text" /\ (c.Autocomplete \/ c.Search)
    THEN {"raw"} \cup (IF c.Autocomplete THEN {"suggest"} ELSE {})
                 \cup (IF c.Search THEN {"fulltext"} ELSE {})
    ELSE {}

\* The mapping of each sub-field: "raw" is a keyword, "suggest" a completion
\* field, "fulltext" a text analysed by standard_analyzer.
SubField(s) ==
    CASE s = "raw" -> [type |-> "keyword", analyzer |-> ""]
      [] s = "suggest" -> [type |-> "completion", analyzer |-> ""]
      [] s = "fulltext" -> [type |-> "text", analyzer |-> "standard_analyzer"]

\* generateProperties: one mapping per field; the properties of a nested
\* field are generated when it has any.  No branch returns an error of its
\* own.
RECURSIVE generateProperties(_)
generateProperties(fields) ==
    [err |-> \E name \in DOMAIN fields :
                /\ fields[name].Type = "nested"
                /\ DOMAIN fields[name].Properties # {}
                /\ generateProperties(fields[name].Properties).err,
     properties |->
        [name \in DOMAIN fields |->
            [type |-> fields[name].Type,
             fields |-> [s \in SubFields(fields[name]) |-> SubField(s)],
             nested |-> fields[name].Type = "nested"
                            /\ DOMAIN fields[name].Properties # {},
             properties |->
                IF fields[name].Type = "nested" /\ DOMAIN fields[name].Properties # {}
                THEN generateProperties(fields[name].Properties).properties
                ELSE <<>>]]]

\* The engine calls of a handler that sends a mapping carry it.
Payload(api, target, ok, properties) ==
    [api |-> api, arg |-> target, ok |-> ok, late |-> FALSE, properties |-> properties]

\* POST /indices: the fields are translated, the name is resolved and, when
\* it is free, the index is created with the mapping.
CreateIndexSchema ==
    /\ at = "idle"
    /\ handler' = "CreateIndex"
    /\ at' = "done"
    /\ \E a \in Aliases, fields \in FieldMaps(MaxDepth) :
        /\ request' = [alias |-> a, fields |-> fields]
        /\ IF generateProperties(fields).err
           THEN /\ sent' = <<BadRequest("failed to generate properties fields")>>
                /\ esCalls' = <<>>
                /\ UNCHANGED engineVars
           ELSE \/ \E f \in Failures, r \in Reasons :
                    /\ esCalls' = <<Payload("GetAlias", a, FALSE, <<>>)>>
                    /\ sent' = <<SendErrorResponse(FromEsError(
                                    ElasticsearchError(f, r, "failed to resolve alias")))>>
                    /\ UNCHANGED engineVars
                \/ \E res \in ResolveAlias(Engine, a) :
                    IF CreateIndexOnResolve(res.found) = "conflict"
                    THEN /\ esCalls' = <<Payload("GetAlias", a, TRUE, <<>>)>>
                         /\ sent' = <<SendErrorResponse(ErrResponse(StatusConflict,
                                         "index/alias already exists",
                                         "index/alias already exists",
                                         "resource_already_exists_exception"))>>
                         /\ UNCHANGED engineVars
                    ELSE \/ /\ NewIndexName(a, now) \notin indices
                            /\ esCalls' = <<Payload("GetAlias", a, TRUE, <<>>),
                                            Payload("Create", NewIndexName(a, now), TRUE,
                                                    generateProperties(fields).properties)>>
                            /\ sent' = <<SuccessResponse("index created successfully", <<>>)>>
                            /\ SetEngine(EsCreate(Engine, NewIndexName(a, now),
                                                  CreateIndexAliases(a)))
                         \/ \E f \in Failures, r \in Reasons :
                            /\ esCalls' = <<Payload("GetAlias", a, TRUE, <<>>),
                                            Payload("Create", NewIndexName(a, now), FALSE,
                                                    generateProperties(fields).properties)>>
                            /\ sent' = <<SendErrorResponse(FromEsError(
                                            ElasticsearchError(f, r, "failed to create index")))>>
                            /\ UNCHANGED engineVars
    /\ UNCHANGED <<details, exportVars, now, workers, reqVars>>

\* The ways through UpdateIndex after the resolution found the index: the
\* call that failed, "accepted" for an accepted mapping update, "none" for a
\* migration that went through.
UpdateIndexStops == {"accepted", "create", "copy", "alias", "delete", "none"}

\* The calls of UpdateIndex on alias a, bound to oldIndex, up to the stop.
UpdateIndexCalls(a, oldIndex, newIndex, properties, stop) ==
    <<Payload("GetAlias", a, TRUE, <<>>),
      Payload("PutMapping", oldIndex, stop = "accepted", properties)>>
    \o (IF stop = "accepted" THEN <<>>
        ELSE <<Payload("Create", newIndex, stop # "create", properties)>>)
    \o (IF stop \in {"accepted", "create"} THEN <<>>
        ELSE <<Payload("Reindex", newIndex, stop # "copy", <<>>)>>)
    \o (IF stop \in {"accepted", "create", "copy"} THEN <<>>
        ELSE <<Payload("UpdateAliases", newIndex, stop # "alias", <<>>)>>)
    \o (IF stop \in {"accepted", "create", "copy", "alias"} THEN <<>>
        ELSE <<Payload("Delete", oldIndex, stop # "delete", <<>>)>>)

\* The engine after those calls.
UpdateIndexEngine(e, a, oldIndex, newIndex, stop) ==
    CASE stop \in {"accepted", "create"} -> e
      [] stop = "copy" -> EsCreate(e, newIndex, {})
      [] stop = "alias" ->
            EsCopy(EsCreate(e, newIndex, {}), ReindexBody(oldIndex, newIndex).dest,
                   e.docs[ReindexBody(oldIndex, newIndex).source])
      [] stop = "delete" ->
            EsAliasAdd(EsCopy(EsCreate(e, newIndex, {}), ReindexBody(oldIndex, newIndex).dest,
                              e.docs[ReindexBody(oldIndex, newIndex).source]), a, newIndex)
      [] OTHER ->
            EsDelete(EsAliasAdd(EsCopy(EsCreate(e, newIndex, {}),
                                       ReindexBody(oldIndex, newIndex).dest,
                                       e.docs[ReindexBody(oldIndex, newIndex).source]),
                                a, newIndex), oldIndex)

\* PUT /indices/:alias: the fields are translated, the name is resolved, the
\* mapping is put on the index and, when the engine rejects it, the index is
\* migrated to a new one created with the same mapping.
UpdateIndexSchema ==
    /\ at = "idle"
    /\ handler' = "UpdateIndex"
    /\ at' = "done"
    /\ \E a \in Aliases, fields \in FieldMaps(MaxDepth) :
        /\ request' = [alias |-> a, fields |-> fields]
        /\ IF generateProperties(fields).err
           THEN /\ sent' = <<BadRequest("failed to generate fields")>>
                /\ esCalls' = <<>>
                /\ UNCHANGED engineVars
           ELSE \/ \E f \in Failures, r \in Reasons :
                    /\ esCalls' = <<Payload("GetAlias", a, FALSE, <<>>)>>
                    /\ sent' = <<SendErrorResponse(FromEsError(
                                    ElasticsearchError(f, r, "failed to resolve alias")))>>
                    /\ UNCHANGED engineVars
                \/ \E res \in ResolveAlias(Engine, a) :
                    IF UpdateIndexOnResolve(res.found) = "panic"
                    THEN /\ esCalls' = <<Payload("GetAlias", a, TRUE, <<>>)>>
                         /\ sent' = <<Recovered>>
                         /\ UNCHANGED engineVars
                    ELSE \E stop \in UpdateIndexStops, r \in Reasons :
                         /\ stop \notin {"accepted", "create"}
                                => NewIndexName(a, now) \notin indices
                         /\ esCalls' = UpdateIndexCalls(a, res.name, NewIndexName(a, now),
                                            generateProperties(fields).properties, stop)
                         /\ SetEngine(UpdateIndexEngine(Engine, a, res.name,
                                                        NewIndexName(a, now), stop))
                         /\ sent' =
                              CASE stop = "accepted" -> <<>>
                                [] stop = "none" ->
                                    <<SuccessResponse("Index updated successfully (re-indexed)",
                                                      <<>>)>>
                                [] OTHER ->
                                    <<SendErrorResponse(FromEsError(
                                        ElasticsearchError("rej", r, "failed to update index")))>>
    /\ UNCHANGED <<details, exportVars, now, workers, reqVars>>

\* ---- GetIndex -------------------------------------------------------------------
\* A logical name as the engine reads a name: it carries no timestamp.
Plain(a) == NewIndexName(a, 0)

\* The mappings an index can have at the engine: what generateProperties
\* made of the fields it was created with.
Mappings == {generateProperties(fields).properties : fields \in FieldMaps(1)}

\* Indices.Get(name): the answer is a map keyed by the physical name of every
\* index the name stands for, the name of an index or of an alias.
EsGetIndex(e, name, mapping) ==
    LET found == IF name \in e.indices THEN {name}
                 ELSE UNION {e.aliases[a] : a \in {x \in Aliases : Plain(x) = name}}
    IN [n \in found |-> [mappings |-> [properties |-> mapping]]]

\* parseProperties: type and analyzers of each field; the mappings of
\* generateProperties carry no analyzer on the field itself, so both flags
\* come out false.
parseProperties(properties) ==
    [name \in DOMAIN properties |->
        [Type |-> properties[name].type, Autocomplete |-> FALSE, Search |-> FALSE,
         Properties |-> <<>>]]

\* parseIndex(info, index): info[index] must be there, and its mappings must
\* have properties.
parseIndex(info, index) ==
    IF index \notin DOMAIN info
    THEN [err |-> "invalid index map format", Name |-> index, Fields |-> <<>>]
    ELSE IF DOMAIN info[index].mappings.properties = {}
    THEN [err |-> "failed to extract properties", Name |-> index, Fields |-> <<>>]
    ELSE [err |-> "", Name |-> index,
          Fields |-> parseProperties(info[index].mappings.properties)]

\* GET /indices/:alias/info: ec.GetIndex(alias), then parseIndex(info, alias).
GetIndex ==
    /\ at = "idle"
    /\ handler' = "GetIndex"
    /\ at' = "done"
    /\ \E a \in Aliases, mapping \in Mappings :
        /\ request' = [alias |-> a, mapping |-> mapping]
        /\ \/ \E f \in DecodeFailures, r \in Reasons :
                /\ f = "decode" => aliases[a] # {}
                /\ Issue("GetIndex", a, FALSE)
                /\ sent' = <<SendErrorResponse(FromEsError(
                                ElasticsearchError(f, r, "failed to get index info")))>>
           \/ /\ aliases[a] # {}
              /\ Issue("GetIndex", a, TRUE)
              /\ LET indexData == parseIndex(EsGetIndex(Engine, Plain(a), mapping), Plain(a)) IN
                 sent' = IF indexData.err # ""
                         THEN <<SendErrorResponse(ErrResponse(StatusInternalServerError,
                                    "failed to parse index data", indexData.err,
                                    "parse_error"))>>
                         ELSE <<SuccessResponse("index info retrieved successfully",
                                    [Name |-> indexData.Name, Fields |-> indexData.Fields])>>
    /\ UNCHANGED <<details, exportVars, lifeVars>>

\* ---- one request of the data plane -----------------------------------------
NextData ==
    \/ ExportStart
    \/ ExportDeadline
    \/ ExportSearch
    \/ ExportScroll
    \/ ExportClear
    \/ ImportDocuments
    \/ GetDocument
    \/ UpdateDocument
    \/ DeleteDocument
    \/ ExistsResolve
    \/ ExistsCheck
    \/ GetIndex
    \/ CreateIndexSchema
    \/ UpdateIndexSchema

\* The server is up with error details on or off; the engine has no index,
\* or the index products_1 bound to products and holding every document.
InitData ==
    /\ \E bound \in BOOLEAN :
        /\ now = IF bound THEN 2 ELSE 1
        /\ indices = IF bound THEN {NewIndexName("products", 1)} ELSE {}
        /\ docs = [n \in PhysNames |->
                    IF bound /\ n = NewIndexName("products", 1) THEN Docs ELSE {}]
        /\ aliases = [a \in Aliases |->
                        IF bound THEN {NewIndexName("products", 1)} ELSE {}]
    /\ workers = {1}
    /\ served = 0
    /\ pc = [w \in AllWorkers |-> "idle"]
    /\ op = [w \in AllWorkers |-> "none"]
    /\ alias = [w \in AllWorkers |-> None]
    /\ indexName = [w \in AllWorkers |-> None]
    /\ newIndexName = [w \in AllWorkers |-> None]
    /\ resp = [w \in AllWorkers |-> <<>>]
    /\ calls = [w \in AllWorkers |-> <<>>]
    /\ pre = [w \in AllWorkers |-> None]
    /\ details \in BOOLEAN
    /\ handler = "none"
    /\ at = "idle"
    /\ request = None
    /\ sent = <<>>
    /\ esCalls = <<>>
    /\ hitlist = <<>>
    /\ size = 1
    /\ scroll = NoScroll
    /\ expiredAt = "never"
    /\ documents = <<>>
    /\ scrollID = ""
    /\ iteration = 0

SpecData == InitData /\ [][NextData]_vars

\* The handler's goroutine runs on and every engine call returns: the steps
\* of an export in service are taken.
ExportFairness ==
    /\ WF_vars(ExportSearch)
    /\ WF_vars(ExportScroll)
    /\ WF_vars(ExportClear)

\* An export alone, on an engine that holds no index yet.
InitExport == InitData /\ indices = {}
NextExport ==
    \/ ExportStart
    \/ ExportDeadline
    \/ ExportSearch
    \/ ExportScroll
    \/ ExportClear

SpecExport == InitExport /\ [][NextExport]_vars /\ ExportFairness
\* ---- what a finished request shows --------------------------------------
Finished(w, o) == w \in workers /\ pc[w] = "done" /\ op[w] = o
Issued(w, api) == \E i \in 1..Len(calls[w]) : calls[w][i].api = api
Succeeded(w, api) == \E i \in 1..Len(calls[w]) : calls[w][i].api = api /\ calls[w][i].ok
Failed(w, api) == \E i \in 1..Len(calls[w]) : calls[w][i].api = api /\ ~calls[w][i].ok
Answered(w, ok) == Len(resp[w]) = 1 /\ resp[w][1].ok = ok
\* The resolution answered that the alias has no index.
ResolvedNotFound(w) == Succeeded(w, "GetAlias") /\ pre[w].aliases[alias[w]] = {}
\* The request found its logical name bound to the index it resolved, alone.
BoundTo(w) == pre[w] # None /\ pre[w].aliases[alias[w]] = {indexName[w]}
\* Every answer resolve(name) can give now.
Resolves(a) == {r.name : r \in {x \in ResolveAlias(Engine, a) : x.found}}

\* C1: during one UpdateIndex migration of a name bound to P alone, with no
\* other request in flight, the alias is bound to at most one physical index
\* in every state, the states after the swap included.
C1_AtMostOneBinding ==
    \A w \in workers :
        (op[w] = "UpdateIndex" /\ BoundTo(w)) => Cardinality(aliases[alias[w]]) <= 1

\* C2: after a migration of a name bound to P whose mapping update was
\* rejected and whose reindex, swap and deletion of P all succeeded, the name
\* resolves to the new index Q, Q is not P, and every document P held when
\* the request arrived is retrievable through the name.
C2_MigrationCorrect ==
    \A w \in workers :
        (/\ Finished(w, "UpdateIndex") /\ BoundTo(w)
         /\ Failed(w, "PutMapping") /\ Succeeded(w, "Reindex")
         /\ Succeeded(w, "UpdateAliases") /\ Succeeded(w, "Delete"))
        => /\ Resolves(alias[w]) = {newIndexName[w]}
           /\ newIndexName[w] # indexName[w]
           /\ \A d \in pre[w].docs[indexName[w]] : GetDocumentByID(Engine, alias[w], d)

C2_Witness ==
    \E w \in workers :
        /\ Finished(w, "UpdateIndex") /\ BoundTo(w)
        /\ Failed(w, "PutMapping") /\ Succeeded(w, "Reindex")
        /\ Succeeded(w, "UpdateAliases") /\ Succeeded(w, "Delete")
        /\ pre[w].docs[indexName[w]] = Docs

\* C3: when the creation of Q, the copy or the alias swap of a migration
\* fails, UpdateIndex returns with the alias bound to P and only P, with P in
\* place holding all its documents, and with an error for the client.
C3_FailureKeepsOld ==
    \A w \in workers :
        (/\ Finished(w, "UpdateIndex") /\ BoundTo(w)
         /\ (Failed(w, "Create") \/ Failed(w, "Reindex") \/ Failed(w, "UpdateAliases")))
        => /\ aliases[alias[w]] = {indexName[w]}
           /\ indexName[w] \in indices
           /\ docs[indexName[w]] = pre[w].docs[indexName[w]]
           /\ Answered(w, FALSE)

C3_Witness ==
    \E w \in workers :
        /\ Finished(w, "UpdateIndex") /\ BoundTo(w)
        /\ Failed(w, "UpdateAliases")
        /\ docs[indexName[w]] # {}
        /\ docs[newIndexName[w]] = docs[indexName[w]]

\* C4: when the deletion of P fails after the swap to Q succeeded, the client
\* is told of a success, P stays as an orphan (in place, bound to no alias)
\* and the deletion was tried once.
C4_DegradedSuccess ==
    \A w \in workers :
        (/\ Finished(w, "UpdateIndex") /\ BoundTo(w)
         /\ Succeeded(w, "UpdateAliases") /\ Failed(w, "Delete"))
        => /\ Answered(w, TRUE)
           /\ indexName[w] \in indices
           /\ indexName[w] \notin aliases[alias[w]]
           /\ Cardinality({i \in 1..Len(calls[w]) : calls[w][i].api = "Delete"}) = 1

\* C5: UpdateIndex on a name whose resolution reports no binding creates a
\* physical index bound to the name and answers success, so that the name
\* resolves afterwards.
C5_CreateIfAbsent ==
    \A w \in workers :
        (Finished(w, "UpdateIndex") /\ ResolvedNotFound(w))
        => /\ Answered(w, TRUE)
           /\ Resolves(alias[w]) # {}

\* C6: when the engine accepts the mapping update on P, UpdateIndex issues no
\* creation, reindex, alias update or deletion, the engine is as the request
\* found it, and the name still resolves to P.
C6_InPlaceNoMigration ==
    \A w \in workers :
        (Finished(w, "UpdateIndex") /\ Succeeded(w, "PutMapping"))
        => /\ \A api \in {"Create", "Reindex", "UpdateAliases", "Delete"} : ~Issued(w, api)
           /\ Engine = pre[w]
           /\ indexName[w] \in Resolves(alias[w])
           /\ (BoundTo(w) => Resolves(alias[w]) = {indexName[w]})

C6_Witness ==
    \E w \in workers :
        /\ Finished(w, "UpdateIndex") /\ Succeeded(w, "PutMapping")
        /\ BoundTo(w) /\ docs[indexName[w]] # {}

\* C7: CreateIndex for a name that already resolves answers 409, issues no
\* index creation and leaves the engine as the request found it.
C7_CreateConflict ==
    \A w \in workers :
        (/\ Finished(w, "CreateIndex") /\ Succeeded(w, "GetAlias")
         /\ pre[w].aliases[alias[w]] # {})
        => /\ resp[w] = <<Failure(StatusConflict, "index/alias already exists")>>
           /\ ~Issued(w, "Create")
           /\ Engine = pre[w]

C7_Witness ==
    \E w \in workers :
        /\ Finished(w, "CreateIndex") /\ Succeeded(w, "GetAlias")
        /\ pre[w].aliases[alias[w]] # {}
        /\ indexName[w] \notin indices

\* C8 as stated: a successful CreateIndex leaves the name resolving to
\* exactly the index it created; a failed one leaves neither that physical
\* index nor any binding of the name.
C8_Original ==
    \A w \in workers :
        Finished(w, "CreateIndex")
        => IF Answered(w, TRUE)
           THEN indexName[w] \in indices /\ Resolves(alias[w]) = {indexName[w]}
           ELSE indexName[w] \notin indices /\ aliases[alias[w]] = {}

\* C8 amended: a successful CreateIndex leaves the name resolving to exactly
\* the index name_timestamp it created; a failed one leaves the engine as the
\* request found it (it created no index and bound no alias).
C8_CreateAtomic ==
    \A w \in workers :
        Finished(w, "CreateIndex")
        => IF Answered(w, TRUE)
           THEN /\ indexName[w] \in indices \ pre[w].indices
                /\ \E t \in Times : indexName[w] = NewIndexName(alias[w], t)
                /\ Resolves(alias[w]) = {indexName[w]}
           ELSE Answered(w, FALSE) /\ Engine = pre[w]

C8_Witness ==
    \E w \in workers :
        /\ Finished(w, "CreateIndex") /\ Answered(w, FALSE)
        /\ Failed(w, "Create")
        /\ indexName[w] \in indices

\* C9: when two UpdateIndex requests in flight together have both resolved
\* the name to P, both reindexed and both swapped the alias, then once both
\* have returned the alias is bound to exactly one of the two new indices and
\* the other new index exists unbound.
C9_LastSwapWins ==
    (/\ Finished(1, "UpdateIndex") /\ Finished(2, "UpdateIndex")
     /\ BoundTo(1) /\ BoundTo(2)
     /\ indexName[1] = indexName[2] /\ newIndexName[1] # newIndexName[2]
     /\ Succeeded(1, "Reindex") /\ Succeeded(2, "Reindex")
     /\ Succeeded(1, "UpdateAliases") /\ Succeeded(2, "UpdateAliases"))
    => \E w \in {1, 2} :
        /\ aliases[alias[w]] = {newIndexName[w]}
        /\ newIndexName[3 - w] \in indices \ aliases[alias[w]]

\* C10: when two CreateIndex requests for a name never created before have
\* both returned, the name is bound to at most one physical index and at most
\* one of the two was answered a success.
C10_OneCreationWins ==
    (/\ Finished(1, "CreateIndex") /\ Finished(2, "CreateIndex")
     /\ alias[1] = alias[2]
     /\ pre[1].indices = {} /\ pre[2].indices = {})
    => /\ Cardinality(aliases[alias[1]]) <= 1
       /\ ~(Answered(1, TRUE) /\ Answered(2, TRUE))

\* ---- what a finished data-plane request shows --------------------------------
ExportDone == handler = "ExportDocuments" /\ at = "done"
ImportDone == handler = "ImportDocuments" /\ at = "done"
DataIssued(api) == \E k \in 1..Len(esCalls) : esCalls[k].api = api
\* The search and every scroll call were answered and decoded, every page
\* with its scroll id.
PagesRead ==
    /\ \A k \in 1..Len(esCalls) : esCalls[k].api \in {"Search", "Scroll"} => esCalls[k].ok
    /\ DataIssued("Search")
    /\ scrollID # ""
\* A stream of action lines and document lines in strict alternation.
Alternates(stream) ==
    /\ Len(stream) % 2 = 0
    /\ \A k \in 1..Len(stream) :
        /\ stream[k].t = "object"
        /\ k % 2 = 1 => stream[k].index # ""
RECURSIVE WellFormedFields(_)
\* Fields of which the nested ones, and only they, have properties.
WellFormedFields(fields) ==
    \A name \in DOMAIN fields :
        IF fields[name].Type = "nested"
        THEN /\ DOMAIN fields[name].Properties # {}
             /\ WellFormedFields(fields[name].Properties)
        ELSE DOMAIN fields[name].Properties = {}
RECURSIVE WellFormedMapping(_)
\* The same of a mapping sent to the engine.
WellFormedMapping(properties) ==
    \A name \in DOMAIN properties :
        IF properties[name].type = "nested"
        THEN properties[name].nested /\ WellFormedMapping(properties[name].properties)
        ELSE ~properties[name].nested

\* C11: when the first page of an export has every matching document (hits
\* on the page >= the total), ExportDocuments returns exactly those
\* documents, issues no scroll call, and no scroll context is open at the
\* engine.
C11_FullFirstPage ==
    (ExportDone /\ DataIssued("Search") /\ esCalls[1].ok /\ Len(hitlist) <= size)
    => /\ sent = <<ExportOutput(request, AppendHits(<<>>, hitlist))>>
       /\ ~DataIssued("Scroll")
       /\ scroll = NoScroll

\* C12: when the N matching documents span several pages, no more than the
\* first page and MaxScrollIterations scroll pages, ExportDocuments returns
\* the first page and every scroll page in the engine's order: the N
\* documents, none missing and none twice.
C12_AllPages ==
    (/\ ExportDone /\ PagesRead
     /\ Len(hitlist) > size
     /\ Len(hitlist) <= (MaxScrollIterations + 1) * size)
    => /\ documents = AppendHits(<<>>, hitlist)
       /\ Len(documents) = Len(hitlist)
       /\ sent = <<ExportOutput(request, documents)>>

C12_Witness ==
    /\ ExportDone /\ PagesRead
    /\ size = MaxPageSize
    /\ Len(hitlist) = (MaxScrollIterations + 1) * size
    /\ iteration = MaxScrollIterations

\* C13 as stated: when the matching documents span more pages than
\* MaxScrollIterations, ExportDocuments returns a successful partial result
\* of exactly MaxScrollIterations x page-size documents.
C13_Original ==
    (ExportDone /\ PagesRead /\ Len(hitlist) > MaxScrollIterations * size)
    => /\ sent[1].ok
       /\ Len(documents) = MaxScrollIterations * size

\* C13 amended: when the matching documents span more pages than the first
\* page and MaxScrollIterations scroll pages, ExportDocuments returns a
\* successful partial result: the first (MaxScrollIterations + 1) x page-size
\* documents.
C13_CeilingPartial ==
    (ExportDone /\ PagesRead /\ Len(hitlist) > (MaxScrollIterations + 1) * size)
    => /\ sent = <<ExportOutput(request, documents)>>
       /\ Len(documents) = (MaxScrollIterations + 1) * size
       /\ documents = AppendHits(<<>>, SubSeq(hitlist, 1, (MaxScrollIterations + 1) * size))

C13_Witness ==
    /\ ExportDone /\ PagesRead
    /\ size = MaxPageSize
    /\ Len(hitlist) > (MaxScrollIterations + 1) * size
    /\ sent[1].ok

\* C14: whenever ExportDocuments has entered its scroll loop, it has issued a
\* clear-scroll request by the time it returns, however the loop ended.
C14_ScrollReleased ==
    (ExportDone /\ DataIssued("Scroll")) => DataIssued("ClearScroll")

\* C15: when the request's deadline passes while ExportDocuments is in its
\* scroll loop, no scroll call is made after it and the documents collected
\* so far are returned as a success.
C15_DeadlinePartial ==
    (ExportDone /\ expiredAt = "scroll")
    => /\ sent = <<ExportOutput(request, documents)>>
       /\ \A k \in 1..Len(esCalls) : esCalls[k].api = "Scroll" => ~esCalls[k].late

\* C16: a bulk stream that breaks the alternation of action line and
\* document line (odd number of lines, action line that is no JSON object or
\* has no index key, document line that is no JSON object) fails the import
\* with bad_request and no bulk call reaches the engine.
C16_BulkStreamRejected ==
    (ImportDone /\ request.bulk /\ ~Alternates(request.json))
    => /\ Len(sent) = 1
       /\ ~sent[1].ok
       /\ sent[1].code = StatusBadRequest
       /\ sent[1].type = "bad_request"
       /\ esCalls = <<>>

\* C17: importing, with bulk = true, the NDJSON a bulk export of a whole
\* index answered hands the engine the documents of that index, equal field
\* for field and in their order, each under one index action for the new
\* index.
C17_RoundTrip ==
    (/\ ImportDone /\ request.origin = "export"
     /\ Len(documents) = Len(hitlist)
     /\ DataIssued("Bulk"))
    => esCalls[1].arg = [k \in 1..(2 * Len(hitlist)) |->
                            IF k % 2 = 1 THEN MetaLine(request.index)
                            ELSE hitlist[k \div 2]]

\* C18: a get, an update (with a valid body) or a delete routed as
\* /documents/{alias}/{id} with non-empty alias and id issues exactly one
\* engine call, for that name and id, and answers its outcome.
C18_OneDocumentCall ==
    (/\ at = "done"
     /\ handler \in {"GetDocumentByID", "UpdateDocument", "DeleteDocument"}
     /\ request.params.alias # "" /\ request.params.id # "" /\ request.bodyOk)
    => /\ Len(esCalls) = 1
       /\ esCalls[1].arg = <<request.params.alias, request.params.id>>
       /\ Len(sent) = 1
       /\ sent[1].ok = esCalls[1].ok

\* C19: with error details off, every error envelope a handler has sent has
\* empty details.
C19_NoDetails ==
    ~details => \A k \in 1..Len(sent) : ~sent[k].ok => sent[k].details = ""

\* C20: every mapping CreateIndex or UpdateIndex sends to the engine is well
\* formed (a nested field has properties, no other field has), and a request
\* whose fields are not is answered 400 before any engine call.
C20_SchemaWellFormed ==
    (at = "done" /\ handler \in {"CreateIndex", "UpdateIndex"})
    => /\ \A k \in 1..Len(esCalls) :
            esCalls[k].api \in {"Create", "PutMapping"}
                => WellFormedMapping(esCalls[k].properties)
       /\ ~WellFormedFields(request.fields)
            => /\ esCalls = <<>>
               /\ Len(sent) = 1 /\ sent[1].code = StatusBadRequest
\* ---- the order of a migration ---------------------------------------------
\* The engine calls of a migration, in the order the handler issues them.
MigrationOrder == <<"Create", "Reindex", "UpdateAliases", "Delete">>

\* C21: in every migration the engine calls are create Q, copy P into Q, bind
\* the alias to Q, delete P, each issued once and only after the one before
\* it succeeded; the alias is not bound to Q before the copy has completed
\* and P is not deleted unless the bind to Q succeeded.
C21_MigrationOrder ==
    \A w \in workers :
        op[w] = "UpdateIndex"
        => /\ \A i \in 1..Len(calls[w]) : \A k \in 2..Len(MigrationOrder) :
                calls[w][i].api = MigrationOrder[k]
                => /\ i > 1
                   /\ calls[w][i - 1].api = MigrationOrder[k - 1]
                   /\ calls[w][i - 1].ok
           /\ \A i, j \in 1..Len(calls[w]) :
                (calls[w][i].api = calls[w][j].api) => i = j
           /\ (/\ newIndexName[w] # None
               /\ newIndexName[w] \in aliases[alias[w]] \ pre[w].aliases[alias[w]])
              => /\ Succeeded(w, "Reindex")
                 /\ pre[w].docs[indexName[w]] \subseteq docs[newIndexName[w]]
           /\ (indexName[w] # None /\ indexName[w] \in pre[w].indices \ indices)
              => Succeeded(w, "UpdateAliases")

C21_Witness ==
    \E w \in workers :
        /\ op[w] = "UpdateIndex" /\ pc[w] = "upd_delete"
        /\ BoundTo(w)
        /\ pre[w].docs[indexName[w]] # {}
        /\ newIndexName[w] \in aliases[alias[w]]

\* The scroll calls an export has issued.
ScrollCalls == Cardinality({k \in 1..Len(esCalls) : esCalls[k].api = "Scroll"})

\* C22: ExportDocuments always terminates, and issues at most
\* MaxScrollIterations scroll calls, whatever the engine answers.
C22_ExportTerminates ==
    /\ [](ScrollCalls <= MaxScrollIterations)
    /\ (handler = "ExportDocuments") ~> ExportDone

C22_Witness ==
    /\ ExportDone
    /\ ScrollCalls = MaxScrollIterations
    /\ Len(documents) < Len(hitlist)

\* C23: a migration that derives the name of the current index P as the new
\* name (the update falls in the second P was created in) fails with an
\* error after one creation attempt; P, its documents and the binding to P
\* are as the request found them, and P is neither copied onto itself nor
\* deleted.
C23_SameSecondFails ==
    \A w \in workers :
        (/\ Finished(w, "UpdateIndex")
         /\ indexName[w] # None /\ newIndexName[w] = indexName[w])
        => /\ Answered(w, FALSE)
           /\ Cardinality({i \in 1..Len(calls[w]) : calls[w][i].api = "Create"}) = 1
           /\ \A api \in {"Reindex", "UpdateAliases", "Delete"} : ~Issued(w, api)
           /\ Engine = pre[w]
           /\ indexName[w] \in indices /\ indexName[w] \in aliases[alias[w]]

C23_Witness ==
    \E w \in workers :
        /\ Finished(w, "UpdateIndex")
        /\ indexName[w] # None /\ newIndexName[w] = indexName[w]
        /\ Failed(w, "Create")
        /\ docs[indexName[w]] = Docs

\* C24: after DeleteIndex answered a success for a logical name, whatever
\* creations, updates and migrations came before (migrations whose deletion
\* of the old index failed included), the name resolves to nothing and no
\* physical index is bound to it.
C24_DeleteUnbinds ==
    \A w \in workers :
        (Finished(w, "DeleteIndex") /\ Answered(w, TRUE))
        => /\ aliases[alias[w]] = {}
           /\ Resolves(alias[w]) = {}

\* C25: for a logical name bound to an existing physical index whose mapping
\* has properties, GET /indices/{alias}/info succeeds and returns the field
\* schema of that index under the logical name.
C25_InfoByAlias ==
    (/\ at = "done" /\ handler = "GetIndex"
     /\ aliases[request.alias] # {} /\ aliases[request.alias] \subseteq indices
     /\ DOMAIN request.mapping # {}
     /\ esCalls[1].ok)
    => /\ Len(sent) = 1
       /\ sent[1].ok
       /\ sent[1].data.Name = Plain(request.alias)
       /\ sent[1].data.Fields = parseProperties(request.mapping)

\* The analyzers the index settings define: autocomplete_analyzer is the
\* edge-n-gram one, standard_analyzer the standard one.
EdgeNGramAnalyzer == "autocomplete_analyzer"
StandardAnalyzer == "standard_analyzer"

RECURSIVE Translates(_, _)
\* The mapping has the fields' names and types, the sub-fields of the text
\* fields, and below a nested field the mapping of its properties.
Translates(fields, properties) ==
    /\ DOMAIN properties = DOMAIN fields
    /\ \A name \in DOMAIN fields :
        /\ properties[name].type = fields[name].Type
        /\ (fields[name].Type = "text" /\ fields[name].Autocomplete)
            => \E s \in DOMAIN properties[name].fields :
                    properties[name].fields[s].analyzer = EdgeNGramAnalyzer
        /\ (fields[name].Type = "text" /\ fields[name].Search)
            => \E s \in DOMAIN properties[name].fields :
                    properties[name].fields[s].analyzer = StandardAnalyzer
        /\ fields[name].Type = "nested"
            => Translates(fields[name].Properties, properties[name].properties)

\* C26: for every well-formed field map generateProperties returns no error
\* and a mapping with exactly the fields' names, each with its type; a text
\* field with autocomplete has a sub-field analysed by the edge-n-gram
\* analyzer, a text field with search one analysed by the standard analyzer,
\* and a nested field the mapping of its properties.
C26_FieldsTranslated ==
    (/\ at = "done" /\ handler \in {"CreateIndex", "UpdateIndex"}
     /\ WellFormedFields(request.fields))
    => /\ ~generateProperties(request.fields).err
       /\ Translates(request.fields, generateProperties(request.fields).properties)
       /\ \A k \in 1..Len(esCalls) :
            esCalls[k].api \in {"Create", "PutMapping"}
                => esCalls[k].properties = generateProperties(request.fields).properties

\* C27: every document of an import is written to the index the form field
\* index names and to no other: the one bulk call has, per document, an
\* index action for that index, whatever the action lines of the imported
\* stream and the alias of the URI name.
C27_ImportDestination ==
    (ImportDone /\ DataIssued("Bulk"))
    => /\ Len(esCalls) = 1
       /\ Len(esCalls[1].arg) % 2 = 0
       /\ request.bulk => Len(esCalls[1].arg) = Len(request.json)
       /\ \A k \in 1..Len(esCalls[1].arg) :
            k % 2 = 1 => esCalls[1].arg[k] = MetaLine(request.index)

C27_Witness ==
    /\ ImportDone /\ DataIssued("Bulk")
    /\ request.origin = "export"
    /\ Len(request.json) >= 4
    /\ request.alias # request.index
    /\ \A k \in 1..Len(request.json) :
            k % 2 = 1 => request.json[k] = MetaLine(request.alias)

\* C28: every path through the UpdateIndex handler has written exactly one
\* response when it returns, the path of an accepted mapping update
\* included.
C28_OneResponse ==
    \A w \in workers : Finished(w, "UpdateIndex") => Len(resp[w]) = 1

\* C29: ResolveAlias is a function of the engine state: in every reachable
\* state, one with the alias bound to several indices included, every
\* resolution of an alias gives the same physical name.
C29_ResolveDeterministic ==
    \A a \in Aliases : Cardinality(Resolves(a)) <= 1

\* C30: the scroll id ExportDocuments hands to the clear-scroll call is not
\* empty and is the id of the scroll context open at the engine, also when
\* the loop ended on a page without a scroll id.
C30_ClearsOpenContext ==
    \A k \in 1..Len(esCalls) :
        esCalls[k].api = "ClearScroll"
        => /\ esCalls[k].arg # ""
           /\ esCalls[k].arg = ScrollContext

====
